---- MODULE Spec2Model ----
(***************************************************************************)
(* DonateContract (fhevm-hardhat-template/contracts/DonateContract.sol):   *)
(* an encrypted charity campaign.  Every external function of the contract *)
(* is one action; a transaction that reverts rolls every storage write and *)
(* every event back, so a reverted call changes only the receipt of the    *)
(* transaction: the call, its revert reason, its events and its transfers. *)
(* Transactions are serialized: the next one starts from the storage that  *)
(* the last one left, once its receipt is out (NextTransaction).           *)
(*                                                                         *)
(* Encrypted values are handles.  A handle is modelled by its provenance   *)
(* (the chain of operands it was computed from), its plaintext is what the *)
(* decryption oracle returns for it.  Arithmetic on euint128 wraps modulo  *)
(* 2^128; the width is scaled down to MaxUint128 + 1 values.               *)
(*                                                                         *)
(* The React hook useDonateContract (hooks/useDonateContract.tsx) is the   *)
(* second part: its state, its refs and the position of each of its async  *)
(* functions, run against the chain as the hook observes it (HookSpec).    *)
(***************************************************************************)
EXTENDS Integers, Sequences, FiniteSets, TLC

(* ---------------------------- bounds ----------------------------------- *)

\* type(uint128).max, scaled down (the model's euint128/uint128 width)
MaxUint128 == 1023
\* successful donate calls in one run
MaxDonations == 2
\* decryption requests issued in one run
MaxRequests == 2
\* campaigns started in one run
MaxCampaigns == 2
\* contract events emitted towards the hook's listeners in one run
MaxEvents == 2
\* progress timeouts the hook arms in one run
MaxTimers == 2

(* ---------------------------- domains ---------------------------------- *)

Principals == {"alice", "bob"}
ZeroAddress == "0x0"
This == "this"
Relayer == "relayer"

\* plaintexts of the ciphertexts a donor submits to donate
Amounts == {2, MaxUint128}
\* plaintexts of the ciphertexts an owner submits as target
Targets == {0, 3}
\* msg.value of a donate call (a uint256)
PaidValues == {0, 2, MaxUint128, MaxUint128 + 1}
\* request ids a callback may be invoked with: the issued ones and one more
RequestIds == 1..(MaxRequests + 1)

(* ---------------------------- handles ---------------------------------- *)

\* bytes32(0): the value of an euint128 storage slot never written
NilHandle == [k |-> "nil", v |-> <<>>]
\* FHE.asEuint128(0)
TrivialZero == [k |-> "enc", v |-> <<>>]
\* FHE.fromExternal(ciphertext, proof) for a ciphertext of plaintext x
External(x) == [k |-> "ext", v |-> <<x>>]

RECURSIVE WrapSum(_)
\* the plaintext of a chain of wrapping euint128 additions starting at zero
WrapSum(s) ==
    IF s = <<>> THEN 0
    ELSE (WrapSum(SubSeq(s, 1, Len(s) - 1)) + s[Len(s)]) % (MaxUint128 + 1)

\* what the decryption oracle returns for handle h
Decrypt(h) == IF h.k = "ext" THEN h.v[1] ELSE WrapSum(h.v)

\* mutation of FHEadd: the operand is dropped, the sum stays what it was
FHEaddLost(a, b) ==
    LET lhs == IF a.k = "nil" THEN TrivialZero ELSE a
    IN  [k |-> "enc", v |-> Append(lhs.v, 0)]

\* FHE.add(a, b) with b an external input: an uninitialized a counts as zero
FHEadd(a, b) ==
    LET lhs == IF a.k = "nil" THEN TrivialZero ELSE a
    IN  [k |-> "enc", v |-> Append(lhs.v, Decrypt(b))]

(* ---------------------------- state ------------------------------------ *)

VARIABLES
    campaignActive,      \* bool public campaignActive
    charityOwner,        \* address public charityOwner
    totalDonations,      \* euint128 _totalDonations
    targetAmount,        \* euint128 _targetAmount
    donorBalances,       \* mapping(address => euint128) _donorBalances
    pendingWithdrawals,  \* mapping(uint256 => address) _pendingWithdrawals
    requestedHandles,    \* FHE library: the handles of each issued request
    acl,                 \* FHE ACL: persistent grants <<handle, grantee>>
    balance,             \* address(this).balance
    events,              \* the receipt: the events of the transaction
    sent,                \* the receipt: the native transfers it made
    last,                \* the receipt: the call and its revert reason
    progressIds,         \* history: ids whose callbackProgress succeeded
    withdrawnIds,        \* history: ids whose callbackEndCampaign succeeded
    campaigns,           \* history: campaigns started
    donated,             \* history: sum of the amounts donated to this campaign
    issuedIn,            \* history: the campaign each request was issued in
    hookCampaignActive,  \* hook state campaignActive
    isOwner,             \* hook state isOwner
    isRefreshing,        \* hook state isRefreshing
    isRefreshingRef,     \* isRefreshingRef.current
    isDonating,          \* hook state isDonating
    isDonatingRef,       \* isDonatingRef.current
    isRequestingProgress, \* hook state isRequestingProgress
    progressError,       \* hook state progressError
    progress,            \* hook state progress: its percentage, -1 for null
    progressTimeoutRef,  \* progressTimeoutRef.current: a timer id, 0 for null
    timers,              \* the armed timers that have neither fired nor been cleared
    refreshPc,           \* where the running refreshState call stands
    reads,               \* what its two contract reads have returned so far
    donatePc,            \* where each call of the hook's donate stands
    progressPc,          \* where each call of the hook's requestProgress stands
    inbox,               \* contract events not yet delivered to the listeners
    hookHistory          \* whether the hook is mounted, and history for the claims

storage == <<campaignActive, charityOwner, totalDonations, targetAmount,
             donorBalances, pendingWithdrawals, requestedHandles, acl, balance>>
history == <<progressIds, withdrawnIds, campaigns, donated, issuedIn>>
contractVars == <<storage, events, sent, last, history>>
viewVars == <<hookCampaignActive, isOwner>>
refreshVars == <<isRefreshingRef, isRefreshing, refreshPc, reads>>
donateVars == <<isDonatingRef, isDonating, donatePc>>
progressVars == <<isRequestingProgress, progressError, progress,
                  progressTimeoutRef, timers, progressPc>>
hookVars == <<viewVars, refreshVars, donateVars, progressVars, inbox,
              hookHistory>>
vars == <<contractVars, hookVars>>

\* the call of a transaction and its outcome: err is the revert reason, ""
\* for a transaction that succeeded
\* the two reads of a refreshState call, before either has returned
NoReads == [answered |-> {}, active |-> FALSE, owner |-> ZeroAddress]

\* The hook before its effects have run, with the history the claims use:
\* the events emitted so far, whether one of them was a lifecycle event, the
\* contract's campaignActive and charityOwner at the latest lifecycle event,
\* and whether a refreshState call has failed since.
NoHistory == [mounted |-> FALSE, emitted |-> 0, lifecycle |-> FALSE,
              atEvent |-> <<FALSE, ZeroAddress>>, refreshFailed |-> FALSE]

Call(op, sender, requestId, value, proofOk, err) ==
    [op |-> op, sender |-> sender, requestId |-> requestId, value |-> value,
     proofOk |-> proofOk, err |-> err]

\* no transaction is being reported: the next one can start
NoCall == Call("none", ZeroAddress, 0, 0, TRUE, "")
Ready == last = NoCall

\* mutation of Reverted: the delete of the pending withdrawal that
\* callbackEndCampaign runs before its checks survives the revert
RevertedAfterDelete(call) ==
    /\ last' = call
    /\ events' = <<>>
    /\ sent' = <<>>
    /\ pendingWithdrawals' =
           [r \in RequestIds |->
               IF call.op = "callbackEndCampaign" /\ r = call.requestId
               THEN ZeroAddress ELSE pendingWithdrawals[r]]
    /\ UNCHANGED <<campaignActive, charityOwner, totalDonations, targetAmount,
                   donorBalances, requestedHandles, acl, balance, history>>

\* a reverted transaction: no storage write and no event survives
Reverted(call) ==
    /\ last' = call
    /\ events' = <<>>
    /\ sent' = <<>>
    /\ UNCHANGED <<storage, history>>

\* the hook at its first render: the useState and useRef initial values
HookInit ==
    /\ hookCampaignActive = FALSE
    /\ isOwner = FALSE
    /\ isRefreshing = FALSE
    /\ isRefreshingRef = FALSE
    /\ isDonating = FALSE
    /\ isDonatingRef = FALSE
    /\ isRequestingProgress = FALSE
    /\ progressError = "null"
    /\ progress = -1
    /\ progressTimeoutRef = 0
    /\ timers = {}
    /\ refreshPc = "idle"
    /\ reads = NoReads
    /\ donatePc = [k \in 1..MaxDonations |-> "idle"]
    /\ progressPc = [k \in 1..MaxTimers |-> "idle"]
    /\ inbox = <<>>
    /\ hookHistory = NoHistory

Init ==
    /\ campaignActive = FALSE
    /\ charityOwner = ZeroAddress
    /\ totalDonations = TrivialZero
    /\ targetAmount = TrivialZero
    /\ donorBalances = [p \in Principals |-> NilHandle]
    /\ pendingWithdrawals = [r \in RequestIds |-> ZeroAddress]
    /\ requestedHandles = <<>>
    /\ acl = {}
    /\ balance = 0
    /\ events = <<>>
    /\ sent = <<>>
    /\ last = Call("constructor", ZeroAddress, 0, 0, TRUE, "")
    /\ progressIds = {}
    /\ withdrawnIds = {}
    /\ campaigns = 0
    /\ donated = 0
    /\ issuedIn = <<>>
    /\ HookInit

(* ------------------------ FHE library calls ---------------------------- *)

\* mutation of Allow: no grant is recorded
AllowNobody(grants, h, who) == grants

\* mutation of Allow: only the contract's own grant is recorded
AllowContractOnly(grants, h, who) == grants \cup {<<h, This>>}

\* FHE.allowThis / FHE.allow: persistent grants on handle h
Allow(grants, h, who) == grants \cup {<<h, w>> : w \in who}

\* The grants on the handles the contract still stores.  A grant is never
\* revoked, but a handle no storage slot holds any more can only come back
\* through startCampaign, updateTarget or donate, which grant it again: the
\* model keeps the grants on stored handles and forgets the others.
Stored(grants, total, target, balances) ==
    {g \in grants : g[1] \in {total, target} \cup {balances[p] : p \in Principals}}

\* FHE.fromExternal: reverts unless the input proof verifies
FromExternalRevert(proofOk) == IF proofOk THEN "" ELSE "InvalidInputProof"

\* FHE.requestDecryption checks that the contract may decrypt every handle
RequestDecryptionRevert(cts) ==
    IF \E i \in 1..Len(cts) : <<cts[i], This>> \notin acl
    THEN "SenderNotAllowed" ELSE ""

\* the id FHE.requestDecryption returns: fresh for every request
NextRequestId == Len(requestedHandles) + 1

Issued(requestId) == requestId \in 1..Len(requestedHandles)

\* the cleartexts the oracle signs for a request: one value per handle, in order
Cleartexts(requestId) ==
    [i \in 1..Len(requestedHandles[requestId]) |->
        Decrypt(requestedHandles[requestId][i])]

\* FHE.checkSignatures(requestId, cleartexts, proof): the request must have
\* handles on record and the proof must sign these cleartexts for them.  It
\* keeps no record of the requests already answered.
CheckSignaturesRevert(requestId, proofOk) ==
    IF ~Issued(requestId) THEN "NoHandleFoundForRequestID"
    ELSE IF ~proofOk THEN "InvalidKMSSignatures"
    ELSE ""

(* ---------------------------- modifiers -------------------------------- *)

\* mutation of OnlyOwnerRevert: the modifier lets every caller through
OnlyOwnerRevertAnyone(sender) == ""

OnlyOwnerRevert(sender) == IF sender = charityOwner THEN "" ELSE "Not owner"

\* mutation of WhenActiveRevert: the modifier lets every call through
WhenActiveRevertNever == ""

WhenActiveRevert == IF campaignActive THEN "" ELSE "Campaign not active"

WhenNotActiveRevert == IF ~campaignActive THEN "" ELSE "Campaign active"

\* the first revert reason of a list of checks run in order, "" if none
RECURSIVE FirstRevert(_)
FirstRevert(checks) ==
    IF checks = <<>> THEN ""
    ELSE IF Head(checks) # "" THEN Head(checks)
    ELSE FirstRevert(Tail(checks))

(* ---------------------------- startCampaign ---------------------------- *)

\* mutation of StartCampaignRevert: startCampaign without whenNotActive
StartCampaignRevertAnyTime(sender, proofOk) == FromExternalRevert(proofOk)

StartCampaignRevert(sender, proofOk) ==
    FirstRevert(<<WhenNotActiveRevert, FromExternalRevert(proofOk)>>)

StartCampaign(sender, t, proofOk) ==
    LET err == StartCampaignRevert(sender, proofOk)
        target == External(t)
    IN  /\ Ready
        /\ UNCHANGED hookVars
        /\ IF err # "" THEN Reverted(Call("startCampaign", sender, 0, 0, proofOk, err))
           ELSE
               /\ campaigns < MaxCampaigns
               /\ campaigns' = campaigns + 1
               /\ donated' = 0
               /\ charityOwner' = sender
               /\ campaignActive' = TRUE
               /\ targetAmount' = target
               /\ totalDonations' = TrivialZero
               /\ acl' = Stored(Allow(Allow(acl, target, {This, sender}),
                                      TrivialZero, {This, sender}),
                                TrivialZero, target, donorBalances)
               /\ events' = << <<"CampaignStarted", sender, target>> >>
               /\ sent' = <<>>
               /\ last' = Call("startCampaign", sender, 0, 0, proofOk, "")
               /\ UNCHANGED <<donorBalances, pendingWithdrawals, requestedHandles,
                              balance, progressIds, withdrawnIds, issuedIn>>

(* ---------------------------- endCampaign ------------------------------ *)

EndCampaignRevert(sender) ==
    FirstRevert(<<OnlyOwnerRevert(sender), WhenActiveRevert,
                  RequestDecryptionRevert(<<totalDonations>>)>>)

\* mutation of ActiveAfterEndCampaign: endCampaign leaves the flag alone
ActiveAfterEndCampaignKept == campaignActive

\* campaignActive = false, the first statement of endCampaign
ActiveAfterEndCampaign == FALSE

EndCampaign(sender) ==
    LET err == EndCampaignRevert(sender)
        requestId == NextRequestId
    IN  /\ Ready
        /\ UNCHANGED hookVars
        /\ IF err # "" THEN Reverted(Call("endCampaign", sender, 0, 0, TRUE, err))
           ELSE
               /\ Len(requestedHandles) < MaxRequests
               /\ campaignActive' = ActiveAfterEndCampaign
               /\ requestedHandles' = Append(requestedHandles, <<totalDonations>>)
               /\ pendingWithdrawals' =
                      [pendingWithdrawals EXCEPT ![requestId] = sender]
               /\ events' = << <<"WithdrawalRequested", sender, totalDonations>> >>
               /\ sent' = <<>>
               /\ last' = Call("endCampaign", sender, requestId, 0, TRUE, "")
               /\ issuedIn' = Append(issuedIn, campaigns)
               /\ UNCHANGED <<charityOwner, totalDonations, targetAmount,
                              donorBalances, acl, balance, progressIds,
                              withdrawnIds, campaigns, donated>>

(* ---------------------------- updateTarget ----------------------------- *)

UpdateTargetRevert(sender, proofOk) ==
    FirstRevert(<<OnlyOwnerRevert(sender), WhenActiveRevert,
                  FromExternalRevert(proofOk)>>)

UpdateTarget(sender, t, proofOk) ==
    LET err == UpdateTargetRevert(sender, proofOk)
        target == External(t)
    IN  /\ Ready
        /\ UNCHANGED hookVars
        /\ IF err # "" THEN Reverted(Call("updateTarget", sender, 0, 0, proofOk, err))
           ELSE
               /\ targetAmount' = target
               /\ acl' = Stored(Allow(acl, target, {This, charityOwner}),
                                totalDonations, target, donorBalances)
               /\ events' = << <<"TargetUpdated", target>> >>
               /\ sent' = <<>>
               /\ last' = Call("updateTarget", sender, 0, 0, proofOk, "")
               /\ UNCHANGED <<campaignActive, charityOwner, totalDonations,
                              donorBalances, pendingWithdrawals, requestedHandles,
                              balance, history>>

(* ---------------------------- donate ----------------------------------- *)

\* successful donate calls so far: balances are never reset, so each donor's
\* balance handle records every amount that donor ever gave
Donations ==
    LET n(p) == Len(donorBalances[p].v)
    IN  n("alice") + n("bob")

\* mutation of DonateRevert: donate without require(msg.value > 0)
DonateRevertZeroAccepted(sender, paid, proofOk) ==
    FirstRevert(<<WhenActiveRevert,
                  IF paid <= MaxUint128 THEN "" ELSE "Amount too large",
                  FromExternalRevert(proofOk)>>)

DonateRevert(sender, paid, proofOk) ==
    FirstRevert(<<WhenActiveRevert,
                  IF paid > 0 THEN "" ELSE "Donation > 0",
                  IF paid <= MaxUint128 THEN "" ELSE "Amount too large",
                  FromExternalRevert(proofOk)>>)

Donate(sender, paid, a, proofOk) ==
    LET err == DonateRevert(sender, paid, proofOk)
        amount == External(a)
        newTotal == FHEadd(totalDonations, amount)
        newBalance == FHEadd(donorBalances[sender], amount)
    IN  /\ Ready
        /\ UNCHANGED hookVars
        /\ IF err # "" THEN Reverted(Call("donate", sender, 0, paid, proofOk, err))
           ELSE
               /\ Donations < MaxDonations
               /\ balance' = balance + paid
               /\ totalDonations' = newTotal
               /\ donorBalances' = [donorBalances EXCEPT ![sender] = newBalance]
               /\ acl' = Stored(Allow(Allow(acl, newTotal, {This, charityOwner}),
                                      newBalance, {This, sender}),
                                newTotal, targetAmount, donorBalances')
               /\ events' = << <<"Donation", sender, amount>> >>
               /\ sent' = <<>>
               /\ last' = Call("donate", sender, 0, paid, proofOk, "")
               /\ donated' = donated + a
               /\ UNCHANGED <<campaignActive, charityOwner, targetAmount,
                              pendingWithdrawals, requestedHandles, progressIds,
                              withdrawnIds, campaigns, issuedIn>>

(* ---------------------------- requestProgress -------------------------- *)

\* mutation of RequestProgressRevert: requestProgress with onlyOwner
RequestProgressRevertOwnerOnly(sender) ==
    FirstRevert(<<OnlyOwnerRevert(sender), WhenActiveRevert,
                  RequestDecryptionRevert(<<totalDonations, targetAmount>>)>>)

RequestProgressRevert(sender) ==
    FirstRevert(<<WhenActiveRevert,
                  RequestDecryptionRevert(<<totalDonations, targetAmount>>)>>)

RequestProgress(sender) ==
    LET err == RequestProgressRevert(sender)
        requestId == NextRequestId
    IN  /\ Ready
        /\ UNCHANGED hookVars
        /\ IF err # "" THEN Reverted(Call("requestProgress", sender, 0, 0, TRUE, err))
           ELSE
               /\ Len(requestedHandles) < MaxRequests
               /\ requestedHandles' =
                      Append(requestedHandles, <<totalDonations, targetAmount>>)
               /\ events' = <<>>
               /\ sent' = <<>>
               /\ last' = Call("requestProgress", sender, requestId, 0, TRUE, "")
               /\ issuedIn' = Append(issuedIn, campaigns)
               /\ UNCHANGED <<campaignActive, charityOwner, totalDonations,
                              targetAmount, donorBalances, pendingWithdrawals,
                              acl, balance, progressIds, withdrawnIds, campaigns,
                              donated>>

(* ---------------------------- callbackEndCampaign ---------------------- *)

\* abi.decode(cleartexts, (uint128)): the first word; longer data is accepted
DecodeUint128Revert(cleartexts) ==
    IF Len(cleartexts) >= 1 THEN "" ELSE "abi.decode"

\* mutation of CallbackEndCampaignRevert: no check of the contract's balance
CallbackEndCampaignRevertNoBalanceCheck(requestId, proofOk) ==
    LET sig == CheckSignaturesRevert(requestId, proofOk)
    IN  IF sig # "" THEN sig
        ELSE LET cleartexts == Cleartexts(requestId)
                 withdrawer == pendingWithdrawals[requestId]
             IN  FirstRevert(<<DecodeUint128Revert(cleartexts),
                     IF withdrawer = charityOwner THEN "" ELSE "Not owner">>)

\* mutation of CallbackEndCampaignRevert: no check of the recorded initiator
CallbackEndCampaignRevertNoOwnerCheck(requestId, proofOk) ==
    LET sig == CheckSignaturesRevert(requestId, proofOk)
    IN  IF sig # "" THEN sig
        ELSE LET cleartexts == Cleartexts(requestId)
                 decryptedAmount == cleartexts[1]
             IN  FirstRevert(<<DecodeUint128Revert(cleartexts),
                     IF balance >= decryptedAmount THEN ""
                     ELSE "Insufficient balance">>)

CallbackEndCampaignRevert(requestId, proofOk) ==
    LET sig == CheckSignaturesRevert(requestId, proofOk)
    IN  IF sig # "" THEN sig
        ELSE LET cleartexts == Cleartexts(requestId)
                 decryptedAmount == cleartexts[1]
                 withdrawer == pendingWithdrawals[requestId]
             IN  FirstRevert(<<DecodeUint128Revert(cleartexts),
                     IF withdrawer = charityOwner THEN "" ELSE "Not owner",
                     IF balance >= decryptedAmount THEN ""
                     ELSE "Insufficient balance">>)

\* mutation of WithdrawalEvents: CampaignEnded is emitted before Withdrawn
WithdrawalEventsSwapped(withdrawer, amount) ==
    << <<"CampaignEnded", withdrawer, amount>>, <<"Withdrawn", withdrawer, amount>> >>

\* emit Withdrawn, then emit CampaignEnded
WithdrawalEvents(withdrawer, amount) ==
    << <<"Withdrawn", withdrawer, amount>>, <<"CampaignEnded", withdrawer, amount>> >>

CallbackEndCampaign(sender, requestId, proofOk) ==
    LET err == CallbackEndCampaignRevert(requestId, proofOk)
        decryptedAmount == Cleartexts(requestId)[1]
        withdrawer == pendingWithdrawals[requestId]
    IN  /\ Ready
        /\ UNCHANGED hookVars
        /\ IF err # "" THEN Reverted(Call("callbackEndCampaign", sender, requestId, 0, proofOk, err))
           ELSE
               /\ pendingWithdrawals' =
                      [pendingWithdrawals EXCEPT ![requestId] = ZeroAddress]
               /\ balance' = balance - decryptedAmount
               /\ events' = WithdrawalEvents(withdrawer, decryptedAmount)
               /\ sent' = << <<withdrawer, decryptedAmount>> >>
               /\ last' = Call("callbackEndCampaign", sender, requestId, 0, proofOk, "")
               /\ withdrawnIds' = withdrawnIds \cup {requestId}
               /\ UNCHANGED <<campaignActive, charityOwner, totalDonations,
                              targetAmount, donorBalances, requestedHandles, acl,
                              progressIds, campaigns, donated, issuedIn>>

(* ---------------------------- callbackProgress ------------------------- *)

\* abi.decode(cleartexts, (uint128, uint128)) needs two words
DecodeUint128PairRevert(cleartexts) ==
    IF Len(cleartexts) >= 2 THEN "" ELSE "abi.decode"

\* total * 100 is a uint128 product in checked arithmetic
MulRevert(total) == IF total * 100 <= MaxUint128 THEN "" ELSE "Panic(0x11)"

Percentage(total, target) == IF target > 0 THEN (total * 100) \div target ELSE 0

CallbackProgressRevert(requestId, proofOk) ==
    LET sig == CheckSignaturesRevert(requestId, proofOk)
    IN  IF sig # "" THEN sig
        ELSE LET cleartexts == Cleartexts(requestId)
             IN  IF DecodeUint128PairRevert(cleartexts) # ""
                 THEN DecodeUint128PairRevert(cleartexts)
                 ELSE IF cleartexts[2] > 0 THEN MulRevert(cleartexts[1]) ELSE ""

CallbackProgress(sender, requestId, proofOk) ==
    LET err == CallbackProgressRevert(requestId, proofOk)
        total == Cleartexts(requestId)[1]
        target == Cleartexts(requestId)[2]
    IN  /\ Ready
        /\ UNCHANGED hookVars
        /\ IF err # "" THEN Reverted(Call("callbackProgress", sender, requestId, 0, proofOk, err))
           ELSE
               /\ events' = << <<"CampaignProgress", total, target,
                                 Percentage(total, target)>> >>
               /\ sent' = <<>>
               /\ last' = Call("callbackProgress", sender, requestId, 0, proofOk, "")
               /\ progressIds' = progressIds \cup {requestId}
               /\ UNCHANGED <<storage, withdrawnIds, campaigns, donated, issuedIn>>

(* ---------------------------- specification ---------------------------- *)

\* the receipt of the last transaction is out: the next transaction can start
NextTransaction ==
    /\ ~Ready
    /\ last' = NoCall
    /\ events' = <<>>
    /\ sent' = <<>>
    /\ UNCHANGED <<storage, history, hookVars>>

\* one transaction at a time: a call of one external function by a principal,
\* a callback delivered by the relayer, or the receipt of the last one going out
Next ==
    \/ \E p \in Principals, t \in Targets, ok \in BOOLEAN : StartCampaign(p, t, ok)
    \/ \E p \in Principals : EndCampaign(p)
    \/ \E p \in Principals, t \in Targets, ok \in BOOLEAN : UpdateTarget(p, t, ok)
    \/ \E p \in Principals, paid \in PaidValues, a \in Amounts, ok \in BOOLEAN :
           Donate(p, paid, a, ok)
    \/ \E p \in Principals : RequestProgress(p)
    \/ \E r \in RequestIds, ok \in BOOLEAN : CallbackEndCampaign(Relayer, r, ok)
    \/ \E r \in RequestIds, ok \in BOOLEAN : CallbackProgress(Relayer, r, ok)
    \/ NextTransaction

Spec == Init /\ [][Next]_vars

\* The transactions of a run in which every donor pays what the donor
\* encrypts: donate is called with msg.value equal to the plaintext of the
\* encrypted amount.
NextMatched ==
    \/ \E p \in Principals, t \in Targets, ok \in BOOLEAN : StartCampaign(p, t, ok)
    \/ \E p \in Principals : EndCampaign(p)
    \/ \E p \in Principals, t \in Targets, ok \in BOOLEAN : UpdateTarget(p, t, ok)
    \/ \E p \in Principals, a \in Amounts, ok \in BOOLEAN : Donate(p, a, a, ok)
    \/ \E p \in Principals : RequestProgress(p)
    \/ \E r \in RequestIds, ok \in BOOLEAN : CallbackEndCampaign(Relayer, r, ok)
    \/ \E r \in RequestIds, ok \in BOOLEAN : CallbackProgress(Relayer, r, ok)
    \/ NextTransaction

\* The oracle answers: for every request id the relayer delivers the
\* callback with the verified cleartexts again and again as long as
\* transactions go on, and every receipt goes out.
LiveSpec ==
    /\ Init
    /\ [][NextMatched]_vars
    /\ WF_vars(NextTransaction)
    /\ \A r \in RequestIds : SF_vars(CallbackEndCampaign(Relayer, r, TRUE))

(* ------------------------- useDonateContract --------------------------- *)
(* The hook against the chain as it observes it: the two contract fields   *)
(* refreshState reads (campaignActive, charityOwner) and the events its    *)
(* listeners subscribe to.  Every await of the hook is a separate step, so *)
(* that transactions of other accounts, event deliveries and timers may    *)
(* come between the steps of one call.  React state is taken to be visible *)
(* to the next call as soon as it is set.                                   *)

\* the account of ethersSigner
User == "alice"

\* the events whose listeners call refreshState
LifecycleEvents == {"CampaignStarted", "TargetUpdated", "CampaignEnded", "Donation"}

\* the percentages a CampaignProgress event carries
Percentages == {50}

\* clearAmount arguments of donate
ClearAmounts == {0, 2}

Event(name, percentage) == [name |-> name, percentage |-> percentage]

\* the contract fields the hook never observes
contractRest == <<totalDonations, targetAmount, donorBalances,
                  requestedHandles, acl, balance, events, sent, last, history>>

Mounted == hookHistory.mounted

\* a contract event reaches the provider; the listeners are subscribed
\* when the hook is mounted
Emit(name, percentage, active, owner) ==
    IF ~Mounted
    THEN UNCHANGED <<inbox, hookHistory>>
    ELSE
    /\ hookHistory.emitted < MaxEvents
    /\ inbox' = Append(inbox, Event(name, percentage))
    /\ hookHistory' =
           [hookHistory EXCEPT
               !.emitted = @ + 1,
               !.lifecycle = @ \/ name \in LifecycleEvents,
               !.atEvent = IF name \in LifecycleEvents
                           THEN <<active, owner>> ELSE @,
               !.refreshFailed = IF name \in LifecycleEvents THEN FALSE ELSE @]

\* the first call slot not yet used
FirstIdle(pcs) ==
    CHOOSE k \in DOMAIN pcs :
        pcs[k] = "idle" /\ \A j \in DOMAIN pcs : j < k => pcs[j] # "idle"

(* refreshState *)

\* refreshState up to its first await: a call made while another one is
\* running returns at once
RefreshStateCall ==
    IF isRefreshingRef
    THEN UNCHANGED refreshVars
    ELSE /\ isRefreshingRef' = TRUE
         /\ isRefreshing' = TRUE
         /\ refreshPc' = "getAddress"
         /\ reads' = NoReads

\* the finally block of donate
DonateFinally(k) ==
    /\ isDonatingRef' = FALSE
    /\ isDonating' = FALSE
    /\ donatePc' = [donatePc EXCEPT ![k] = "done"]

\* the finally block of refreshState; a donate call awaiting this
\* refreshState goes on to its own finally block
RefreshStateFinally ==
    /\ isRefreshingRef' = FALSE
    /\ isRefreshing' = FALSE
    /\ refreshPc' = "idle"
    /\ reads' = NoReads
    /\ IF \E k \in DOMAIN donatePc : donatePc[k] = "refresh"
       THEN DonateFinally(CHOOSE k \in DOMAIN donatePc : donatePc[k] = "refresh")
       ELSE UNCHANGED donateVars

\* the effect that runs refreshState when the hook is mounted
MountEffect ==
    /\ ~Mounted
    /\ hookHistory' = [hookHistory EXCEPT !.mounted = TRUE]
    /\ RefreshStateCall
    /\ UNCHANGED <<contractVars, viewVars, donateVars, progressVars, inbox>>

RefreshAddressResolved ==
    /\ refreshPc = "getAddress"
    /\ refreshPc' = "reading"
    /\ UNCHANGED <<isRefreshingRef, isRefreshing, reads>>
    /\ UNCHANGED <<contractVars, viewVars, donateVars, progressVars, inbox,
                   hookHistory>>

\* contract.campaignActive() is answered from the chain
ReadCampaignActive ==
    /\ refreshPc = "reading"
    /\ "active" \notin reads.answered
    /\ reads' = [reads EXCEPT !.answered = @ \cup {"active"},
                              !.active = campaignActive]
    /\ UNCHANGED <<isRefreshingRef, isRefreshing, refreshPc>>
    /\ UNCHANGED <<contractVars, viewVars, donateVars, progressVars, inbox,
                   hookHistory>>

\* contract.charityOwner() is answered from the chain
ReadCharityOwner ==
    /\ refreshPc = "reading"
    /\ "owner" \notin reads.answered
    /\ reads' = [reads EXCEPT !.answered = @ \cup {"owner"},
                              !.owner = charityOwner]
    /\ UNCHANGED <<isRefreshingRef, isRefreshing, refreshPc>>
    /\ UNCHANGED <<contractVars, viewVars, donateVars, progressVars, inbox,
                   hookHistory>>

\* Promise.all has both answers
RefreshSettled ==
    /\ refreshPc = "reading"
    /\ reads.answered = {"active", "owner"}
    /\ hookCampaignActive' = reads.active
    /\ isOwner' = (reads.owner = User)
    /\ RefreshStateFinally
    /\ UNCHANGED <<contractVars, progressVars, inbox, hookHistory>>

\* an await of refreshState rejects
RefreshFailed ==
    /\ refreshPc \in {"getAddress", "reading"}
    /\ hookHistory' = [hookHistory EXCEPT !.refreshFailed = TRUE]
    /\ RefreshStateFinally
    /\ UNCHANGED <<contractVars, viewVars, progressVars, inbox>>

(* the chain: transactions of any account *)

ChainStartCampaign(p) ==
    /\ ~campaignActive
    /\ campaignActive' = TRUE
    /\ charityOwner' = p
    /\ Emit("CampaignStarted", 0, TRUE, p)
    /\ UNCHANGED <<pendingWithdrawals, contractRest>>
    /\ UNCHANGED <<viewVars, refreshVars, donateVars, progressVars>>

ChainUpdateTarget(p) ==
    /\ campaignActive
    /\ charityOwner = p
    /\ Emit("TargetUpdated", 0, campaignActive, charityOwner)
    /\ UNCHANGED contractVars
    /\ UNCHANGED <<viewVars, refreshVars, donateVars, progressVars>>

\* endCampaign: the campaign is inactive at once; WithdrawalRequested has no
\* listener in the hook
ChainEndCampaign(p) ==
    /\ campaignActive
    /\ charityOwner = p
    /\ campaignActive' = FALSE
    /\ pendingWithdrawals' = [pendingWithdrawals EXCEPT ![1] = p]
    /\ UNCHANGED <<charityOwner, contractRest>>
    /\ UNCHANGED hookVars

ChainCallbackEndCampaign ==
    /\ pendingWithdrawals[1] # ZeroAddress
    /\ pendingWithdrawals[1] = charityOwner
    /\ pendingWithdrawals' = [pendingWithdrawals EXCEPT ![1] = ZeroAddress]
    /\ Emit("CampaignEnded", 0, campaignActive, charityOwner)
    /\ UNCHANGED <<campaignActive, charityOwner, contractRest>>
    /\ UNCHANGED <<viewVars, refreshVars, donateVars, progressVars>>

\* callbackProgress for a request of any account
ChainCallbackProgress(percentage) ==
    /\ charityOwner # ZeroAddress
    /\ Emit("CampaignProgress", percentage, campaignActive, charityOwner)
    /\ UNCHANGED contractVars
    /\ UNCHANGED <<viewVars, refreshVars, donateVars, progressVars>>

(* the listeners *)

\* a listener that calls refreshState
HandleRefreshing(name) ==
    /\ inbox # <<>>
    /\ Head(inbox).name = name
    /\ inbox' = Tail(inbox)
    /\ RefreshStateCall
    /\ UNCHANGED <<contractVars, viewVars, donateVars, progressVars,
                   hookHistory>>

HandleDonation == HandleRefreshing("Donation")

HandleCampaignChange ==
    \/ HandleRefreshing("CampaignStarted")
    \/ HandleRefreshing("TargetUpdated")

HandleCampaignEnded == HandleRefreshing("CampaignEnded")

\* clearTimeout(progressTimeoutRef.current)
ClearTimeout(armed, ref) == armed \ {ref}

HandleProgress ==
    /\ inbox # <<>>
    /\ Head(inbox).name = "CampaignProgress"
    /\ inbox' = Tail(inbox)
    /\ timers' = IF progressTimeoutRef # 0
                 THEN ClearTimeout(timers, progressTimeoutRef) ELSE timers
    /\ progressTimeoutRef' = 0
    /\ progress' = Head(inbox).percentage
    /\ isRequestingProgress' = FALSE
    /\ progressError' = "null"
    /\ UNCHANGED progressPc
    /\ UNCHANGED <<contractVars, viewVars, refreshVars, donateVars,
                   hookHistory>>

(* the hook's operations *)

CanDonate == ~isRefreshing /\ ~isDonating /\ hookCampaignActive

CanEndCampaign == ~isRefreshing /\ isOwner /\ hookCampaignActive

CanStartCampaign == ~isRefreshing /\ ~hookCampaignActive

CanUpdateTarget == ~isRefreshing /\ isOwner /\ hookCampaignActive

CanRequestProgress == ~isRefreshing /\ hookCampaignActive

\* startCampaign of the hook, from its call to the end of its
\* refreshState call's synchronous part; a transaction that fails leaves
\* the hook's state as it was
HookStartCampaign ==
    /\ Mounted
    /\ CanStartCampaign
    /\ ~campaignActive
    /\ campaignActive' = TRUE
    /\ charityOwner' = User
    /\ Emit("CampaignStarted", 0, TRUE, User)
    /\ RefreshStateCall
    /\ UNCHANGED <<pendingWithdrawals, contractRest>>
    /\ UNCHANGED <<viewVars, donateVars, progressVars>>

HookUpdateTarget ==
    /\ Mounted
    /\ CanUpdateTarget
    /\ campaignActive
    /\ charityOwner = User
    /\ Emit("TargetUpdated", 0, campaignActive, charityOwner)
    /\ RefreshStateCall
    /\ UNCHANGED contractVars
    /\ UNCHANGED <<viewVars, donateVars, progressVars>>

\* endCampaign of the hook: refreshState is called in the finally block,
\* whether the transaction went through or not
HookEndCampaign ==
    /\ Mounted
    /\ CanEndCampaign
    /\ IF campaignActive /\ charityOwner = User
       THEN /\ campaignActive' = FALSE
            /\ pendingWithdrawals' = [pendingWithdrawals EXCEPT ![1] = User]
       ELSE UNCHANGED <<campaignActive, pendingWithdrawals>>
    /\ RefreshStateCall
    /\ UNCHANGED <<charityOwner, contractRest>>
    /\ UNCHANGED <<viewVars, donateVars, progressVars, inbox, hookHistory>>

\* the guard of donate: a call is dropped while another one is running
DonateGuard(clearAmount) == ~isDonatingRef /\ CanDonate /\ clearAmount > 0

\* donate up to its first await
HookDonate(clearAmount) ==
    /\ Mounted
    /\ DonateGuard(clearAmount)
    /\ \E k \in DOMAIN donatePc : donatePc[k] = "idle"
    /\ isDonatingRef' = TRUE
    /\ isDonating' = TRUE
    /\ donatePc' = [donatePc EXCEPT ![FirstIdle(donatePc)] = "getAddress"]
    /\ UNCHANGED <<contractVars, viewVars, refreshVars, progressVars, inbox,
                   hookHistory>>

\* ethersSigner.getAddress() resolves
DonateAddressResolved(k) ==
    /\ donatePc[k] = "getAddress"
    /\ donatePc' = [donatePc EXCEPT ![k] = "encrypt"]
    /\ UNCHANGED <<isDonatingRef, isDonating>>
    /\ UNCHANGED <<contractVars, viewVars, refreshVars, progressVars, inbox,
                   hookHistory>>

\* ethersSigner.getAddress() rejects: the await is before the try block, so
\* the call ends there
DonateAddressRejected(k) ==
    /\ donatePc[k] = "getAddress"
    /\ donatePc' = [donatePc EXCEPT ![k] = "rejected"]
    /\ UNCHANGED <<isDonatingRef, isDonating>>
    /\ UNCHANGED <<contractVars, viewVars, refreshVars, progressVars, inbox,
                   hookHistory>>

\* input.encrypt() resolves
DonateEncrypted(k) ==
    /\ donatePc[k] = "encrypt"
    /\ donatePc' = [donatePc EXCEPT ![k] = "send"]
    /\ UNCHANGED <<isDonatingRef, isDonating>>
    /\ UNCHANGED <<contractVars, viewVars, refreshVars, progressVars, inbox,
                   hookHistory>>

\* contract.donate(...) resolves
DonateSent(k) ==
    /\ donatePc[k] = "send"
    /\ donatePc' = [donatePc EXCEPT ![k] = "wait"]
    /\ UNCHANGED <<isDonatingRef, isDonating>>
    /\ UNCHANGED <<contractVars, viewVars, refreshVars, progressVars, inbox,
                   hookHistory>>

\* tx.wait() resolves: the donation is mined, and refreshState is awaited
DonateMined(k) ==
    /\ donatePc[k] = "wait"
    /\ campaignActive
    /\ Emit("Donation", 0, campaignActive, charityOwner)
    /\ IF isRefreshingRef
       THEN DonateFinally(k) /\ UNCHANGED refreshVars
       ELSE /\ RefreshStateCall
            /\ donatePc' = [donatePc EXCEPT ![k] = "refresh"]
            /\ UNCHANGED <<isDonatingRef, isDonating>>
    /\ UNCHANGED <<contractVars, viewVars, progressVars>>

\* an await inside the try block rejects
DonateFailed(k) ==
    /\ donatePc[k] \in {"encrypt", "send", "wait"}
    /\ DonateFinally(k)
    /\ UNCHANGED <<contractVars, viewVars, refreshVars, progressVars, inbox,
                   hookHistory>>

\* requestProgress up to its first await
HookRequestProgress ==
    /\ Mounted
    /\ CanRequestProgress
    /\ ~isRequestingProgress
    /\ \E k \in DOMAIN progressPc : progressPc[k] = "idle"
    /\ isRequestingProgress' = TRUE
    /\ progressError' = "null"
    /\ progressPc' = [progressPc EXCEPT ![FirstIdle(progressPc)] = "send"]
    /\ UNCHANGED <<progress, progressTimeoutRef, timers>>
    /\ UNCHANGED <<contractVars, viewVars, refreshVars, donateVars, inbox,
                   hookHistory>>

\* contract.requestProgress() resolves: the transaction is sent and the
\* timeout of call k is armed
ProgressSent(k) ==
    /\ progressPc[k] = "send"
    /\ timers' = timers \cup {k}
    /\ progressTimeoutRef' = k
    /\ progressPc' = [progressPc EXCEPT ![k] = "wait"]
    /\ UNCHANGED <<isRequestingProgress, progressError, progress>>
    /\ UNCHANGED <<contractVars, viewVars, refreshVars, donateVars, inbox,
                   hookHistory>>

\* tx.wait() resolves
ProgressMined(k) ==
    /\ progressPc[k] = "wait"
    /\ progressPc' = [progressPc EXCEPT ![k] = "done"]
    /\ UNCHANGED <<isRequestingProgress, progressError, progress,
                   progressTimeoutRef, timers>>
    /\ UNCHANGED <<contractVars, viewVars, refreshVars, donateVars, inbox,
                   hookHistory>>

\* an await of requestProgress rejects
ProgressFailed(k) ==
    /\ progressPc[k] \in {"send", "wait"}
    /\ timers' = IF progressTimeoutRef # 0
                 THEN ClearTimeout(timers, progressTimeoutRef) ELSE timers
    /\ isRequestingProgress' = FALSE
    /\ progressError' = "Transaction failed"
    /\ progressPc' = [progressPc EXCEPT ![k] = "done"]
    /\ UNCHANGED <<progress, progressTimeoutRef>>
    /\ UNCHANGED <<contractVars, viewVars, refreshVars, donateVars, inbox,
                   hookHistory>>

\* the timeout armed by call k fires
TimeoutFires(k) ==
    /\ k \in timers
    /\ timers' = timers \ {k}
    /\ isRequestingProgress' = FALSE
    /\ progressError' = "Timeout: FHE decryption took too long"
    /\ UNCHANGED <<progress, progressTimeoutRef, progressPc>>
    /\ UNCHANGED <<contractVars, viewVars, refreshVars, donateVars, inbox,
                   hookHistory>>

HookNext ==
    \/ MountEffect
    \/ RefreshAddressResolved
    \/ ReadCampaignActive
    \/ ReadCharityOwner
    \/ RefreshSettled
    \/ RefreshFailed
    \/ \E p \in Principals : ChainStartCampaign(p)
    \/ \E p \in Principals : ChainUpdateTarget(p)
    \/ \E p \in Principals : ChainEndCampaign(p)
    \/ ChainCallbackEndCampaign
    \/ \E percentage \in Percentages : ChainCallbackProgress(percentage)
    \/ HandleDonation
    \/ HandleCampaignChange
    \/ HandleCampaignEnded
    \/ HandleProgress
    \/ HookStartCampaign
    \/ HookUpdateTarget
    \/ HookEndCampaign
    \/ \E clearAmount \in ClearAmounts : HookDonate(clearAmount)
    \/ \E k \in DOMAIN donatePc : DonateAddressResolved(k)
    \/ \E k \in DOMAIN donatePc : DonateAddressRejected(k)
    \/ \E k \in DOMAIN donatePc : DonateEncrypted(k)
    \/ \E k \in DOMAIN donatePc : DonateSent(k)
    \/ \E k \in DOMAIN donatePc : DonateMined(k)
    \/ \E k \in DOMAIN donatePc : DonateFailed(k)
    \/ HookRequestProgress
    \/ \E k \in DOMAIN progressPc : ProgressSent(k)
    \/ \E k \in DOMAIN progressPc : ProgressMined(k)
    \/ \E k \in DOMAIN progressPc : ProgressFailed(k)
    \/ \E k \in DOMAIN progressPc : TimeoutFires(k)

HookSpec == Init /\ [][HookNext]_vars

(* ---------------------------- claims ----------------------------------- *)

\* the last transaction was a call of op that did not revert
Succeeded(op) == last.op = op /\ last.err = ""

\* the request the last successful endCampaign or requestProgress issued
LatestRequest == Len(requestedHandles)

\* r was issued by endCampaign: a request over the one handle of the total
EndCampaignRequest(r) == Issued(r) /\ Len(requestedHandles[r]) = 1

\* r was issued by requestProgress: a request over total and target
ProgressRequest(r) == Issued(r) /\ Len(requestedHandles[r]) = 2

\* C1 (as stated): the total the oracle decrypts for an endCampaign request
\* is the exact sum of the amounts donated to that campaign.
C1_TotalIsExactSum ==
    Succeeded("endCampaign") => Cleartexts(LatestRequest) = <<donated>>

\* C1 (amended): the total the oracle decrypts for an endCampaign request is
\* the sum of the amounts donated to that campaign modulo 2^128, so it is
\* the exact sum whenever that sum fits in 128 bits.
C1_TotalIsSumMod ==
    Succeeded("endCampaign") =>
        /\ Cleartexts(LatestRequest) = <<donated % (MaxUint128 + 1)>>
        /\ donated <= MaxUint128 => Cleartexts(LatestRequest) = <<donated>>

\* C1 witness: a campaign of two donations whose sum passed 2^128 - 1 is ended
C1_Witness ==
    /\ Succeeded("endCampaign")
    /\ Len(totalDonations.v) = 2
    /\ donated > MaxUint128

\* the revert reason the amended C2 expects when the decrypted total of
\* request r exceeds the balance: the owner check runs before the balance check
OverdraftRevert(r) ==
    IF pendingWithdrawals[r] = charityOwner THEN "Insufficient balance"
    ELSE "Not owner"

\* a step that is a callbackEndCampaign call with a valid proof for a request
\* that endCampaign issued
EndCampaignCallbackStep ==
    /\ last'.op = "callbackEndCampaign"
    /\ last'.proofOk
    /\ EndCampaignRequest(last'.requestId)

\* C2 (as stated): the EndCampaign callback never transfers more than the
\* contract's balance; when the decrypted total exceeds the balance it fails
\* with 'Insufficient balance' and transfers nothing; the balance never
\* becomes negative.
C2_NoOverdraftInsufficientBalance ==
    [][/\ balance' >= 0
       /\ EndCampaignCallbackStep =>
              /\ \A i \in 1..Len(sent') : sent'[i][2] <= balance
              /\ Cleartexts(last'.requestId)[1] > balance =>
                     /\ last'.err = "Insufficient balance"
                     /\ balance' = balance /\ sent' = <<>> /\ events' = <<>>
      ]_vars

\* C2 (amended): the EndCampaign callback never transfers more than the
\* contract's balance; when the decrypted total exceeds the balance it fails
\* and transfers nothing, with 'Insufficient balance' if the request's
\* recorded initiator is the current owner and with 'Not owner' otherwise; the
\* balance never becomes negative.
C2_NoOverdraft ==
    [][/\ balance' >= 0
       /\ EndCampaignCallbackStep =>
              /\ \A i \in 1..Len(sent') : sent'[i][2] <= balance
              /\ Cleartexts(last'.requestId)[1] > balance =>
                     /\ last'.err = OverdraftRevert(last'.requestId)
                     /\ balance' = balance /\ sent' = <<>> /\ events' = <<>>
      ]_vars

\* C2 witness: a callback of the owner's own request failed its balance check
C2_Witness ==
    /\ last.op = "callbackEndCampaign"
    /\ last.err = "Insufficient balance"
    /\ pendingWithdrawals[last.requestId] = charityOwner
    /\ Cleartexts(last.requestId)[1] > balance

\* C3: each requestId is honoured by at most one successful callback:
\* callbackEndCampaign transfers at most once per requestId and
\* callbackProgress emits CampaignProgress at most once per requestId.
C3_HonoredAtMostOnce ==
    [][/\ (last'.op = "callbackEndCampaign" /\ last'.err = "")
              => last'.requestId \notin withdrawnIds
       /\ (last'.op = "callbackProgress" /\ last'.err = "")
              => last'.requestId \notin progressIds
      ]_vars

\* C4: a callback invoked with a requestId never issued, or already consumed
\* by a successful callback, fails: it changes no storage, sends nothing and
\* emits no event.
C4_UnknownOrConsumedFails ==
    [][(/\ last'.op \in {"callbackEndCampaign", "callbackProgress"}
        /\ \/ ~Issued(last'.requestId)
           \/ last'.requestId \in withdrawnIds \cup progressIds)
       => (last'.err # "" /\ events' = <<>> /\ sent' = <<>> /\ UNCHANGED storage)
      ]_vars

PaidToOwner(r) ==
    LET total == Cleartexts(r)[1]
    IN  /\ sent' = << <<charityOwner, total>> >>
        /\ balance' = balance - total
        /\ events' = << <<"Withdrawn", charityOwner, total>>,
                        <<"CampaignEnded", charityOwner, total>> >>

C7_DonatePreconditions ==
    [][last'.op = "donate" =>
           IF ~campaignActive \/ last'.value = 0 \/ last'.value > MaxUint128
           THEN /\ last'.err # ""
                /\ events' = <<>>
                /\ UNCHANGED storage
           ELSE last'.proofOk =>
                /\ last'.err = ""
                /\ Len(events') = 1
                /\ events'[1][1] = "Donation" /\ events'[1][2] = last'.sender
                /\ balance' = balance + last'.value
                /\ Decrypt(totalDonations') =
                       (Decrypt(totalDonations) + Decrypt(events'[1][3]))
                           % (MaxUint128 + 1)
      ]_vars

\* C7 witness: a donation of value 0 to an active campaign was rejected
C7_Witness ==
    /\ last.op = "donate" /\ last.err # ""
    /\ last.value = 0 /\ last.proofOk
    /\ campaignActive
    /\ Len(totalDonations.v) = 1

\* C8: startCampaign is rejected whenever a campaign is active, whoever
\* calls, leaving owner, target, total and campaignActive unchanged; it is
\* accepted only when no campaign is active.
C8_StartOnlyWhenInactive ==
    [][last'.op = "startCampaign" =>
           /\ campaignActive =>
                  /\ last'.err # ""
                  /\ events' = <<>>
                  /\ UNCHANGED <<charityOwner, targetAmount, totalDonations,
                                 campaignActive>>
           /\ last'.err = "" => ~campaignActive /\ campaignActive'
      ]_vars

\* C8 witness: the owner's own startCampaign was rejected, a campaign being active
C8_Witness ==
    /\ last.op = "startCampaign" /\ last.err # ""
    /\ last.sender = charityOwner /\ last.proofOk
    /\ campaignActive

\* C9: endCampaign and updateTarget are rejected whenever the caller is not
\* the owner; the rejection issues no decryption request, changes no storage
\* and emits no event.
C9_OnlyOwner ==
    [][(/\ last'.op \in {"endCampaign", "updateTarget"}
        /\ last'.sender # charityOwner)
       => /\ last'.err # ""
          /\ requestedHandles' = requestedHandles
          /\ events' = <<>>
          /\ UNCHANGED storage
      ]_vars

\* C9 witness: endCampaign by a caller who is not the owner of the active
\* campaign was rejected
C9_Witness ==
    /\ last.op = "endCampaign" /\ last.err # ""
    /\ last.sender # charityOwner
    /\ campaignActive
    /\ balance > 0

\* C10: for every decoded total and target the Progress callback emits
\* CampaignProgress(total, target, percentage), percentage being
\* floor(total * 100 / target) for target > 0 and 0 for target = 0, without
\* a cap at 100, and it changes no contract state.
C10_ProgressPercentage ==
    [][(/\ last'.op = "callbackProgress"
        /\ last'.proofOk
        /\ ProgressRequest(last'.requestId))
       => LET total == Cleartexts(last'.requestId)[1]
              target == Cleartexts(last'.requestId)[2]
              percentage == IF target > 0 THEN (total * 100) \div target ELSE 0
          IN  /\ events' = << <<"CampaignProgress", total, target, percentage>> >>
              /\ UNCHANGED storage
      ]_vars

\* the event callbackProgress owes request r: the plaintexts of the handles
\* the request captured, and their percentage
ProgressEvent(r) ==
    LET total == Cleartexts(r)[1]
        target == Cleartexts(r)[2]
    IN  <<"CampaignProgress", total, target,
          IF target > 0 THEN (total * 100) \div target ELSE 0>>

\* a step that delivers, with a valid proof, the first callbackProgress of a
\* request that requestProgress issued
FirstProgressDelivery ==
    /\ last'.op = "callbackProgress"
    /\ last'.proofOk
    /\ ProgressRequest(last'.requestId)
    /\ last'.requestId \notin progressIds

\* C11: of two requestProgress requests issued before either resolves, the
\* callback delivered first emits a correct CampaignProgress and the later
\* callback for the other request succeeds as well, in either order.
C11_ConcurrentProgress ==
    [][(/\ FirstProgressDelivery
        /\ \E other \in 1..Len(requestedHandles) :
               /\ other # last'.requestId
               /\ ProgressRequest(other)
               /\ other \notin progressIds \/ last'.requestId < other)
       => /\ last'.err = ""
          /\ events' = <<ProgressEvent(last'.requestId)>>
      ]_vars

\* C12: a Progress request still outstanding when the owner calls endCampaign
\* is honoured afterwards: its callback succeeds, before or after the
\* EndCampaign callback, and emits the plaintexts of the handles captured
\* when requestProgress was called.
C12_ProgressAfterEnd ==
    [][(/\ FirstProgressDelivery
        /\ \E e \in 1..Len(requestedHandles) :
               /\ EndCampaignRequest(e)
               /\ e > last'.requestId
               /\ issuedIn[e] = issuedIn[last'.requestId])
       => /\ last'.err = ""
          /\ events' = <<ProgressEvent(last'.requestId)>>
      ]_vars

\* C13: every call that fails is all-or-nothing: the storage after it is the
\* storage before it, nothing is sent and no event is emitted; an EndCampaign
\* callback that fails its owner or balance check leaves the pending
\* withdrawal of its requestId in place.
C13_FailedCallsChangeNothing ==
    [][last'.err # "" =>
           /\ UNCHANGED storage
           /\ sent' = <<>>
           /\ events' = <<>>
           /\ (/\ last'.op = "callbackEndCampaign"
               /\ last'.err \in {"Not owner", "Insufficient balance"})
              => pendingWithdrawals'[last'.requestId]
                     = pendingWithdrawals[last'.requestId]
      ]_vars

\* C13 witness: an EndCampaign callback failed its owner or balance check
\* and the pending withdrawal of its request is still recorded
C13_Witness ==
    /\ last.op = "callbackEndCampaign"
    /\ last.err \in {"Not owner", "Insufficient balance"}
    /\ pendingWithdrawals[last.requestId] \in Principals
    /\ balance > 0

\* C14 (as stated): the plaintext of every donor's encrypted balance never
\* decreases from one state to the next.
C14_BalanceNeverDecreases ==
    [][\A p \in Principals :
           Decrypt(donorBalances'[p]) >= Decrypt(donorBalances[p])
      ]_vars

\* C14 (amended): a donor's encrypted balance changes only by that donor's
\* successful donate, which adds the encrypted amount modulo 2^128: the
\* plaintext does not decrease as long as the donor's sum fits in 128 bits,
\* and it wraps around when the sum exceeds 2^128 - 1.
C14_BalanceGrowsMod ==
    [][\A p \in Principals :
           donorBalances'[p] # donorBalances[p] =>
               /\ last'.op = "donate" /\ last'.err = "" /\ last'.sender = p
               /\ LET sum == Decrypt(donorBalances[p]) + Decrypt(events'[1][3])
                  IN  /\ Decrypt(donorBalances'[p]) = sum % (MaxUint128 + 1)
                      /\ sum <= MaxUint128 =>
                             Decrypt(donorBalances'[p]) >= Decrypt(donorBalances[p])
      ]_vars

\* C14 witness: a donor's second donation of a campaign took the donor's sum
\* past 2^128 - 1
C14_Witness ==
    /\ Succeeded("donate")
    /\ Len(donorBalances[last.sender].v) = 2
    /\ Len(totalDonations.v) = 2
    /\ donorBalances[last.sender].v[1] + donorBalances[last.sender].v[2]
           > MaxUint128

\* C15: if the recorded initiator of an EndCampaign request is not the owner
\* when its callback arrives, another principal having started a campaign
\* since, the callback fails with 'Not owner' and no funds are transferred.
C15_InitiatorMustBeOwner ==
    [][(/\ EndCampaignCallbackStep
        /\ pendingWithdrawals[last'.requestId] \in Principals
        /\ pendingWithdrawals[last'.requestId] # charityOwner)
       => /\ last'.err = "Not owner"
          /\ sent' = <<>>
          /\ balance' = balance
      ]_vars

\* C15 witness: the callback of the former owner's request was refused with
\* 'Not owner' although the balance covered the decrypted total
C15_Witness ==
    /\ last.op = "callbackEndCampaign"
    /\ last.err = "Not owner"
    /\ pendingWithdrawals[last.requestId] \in Principals \ {charityOwner}
    /\ issuedIn[last.requestId] < campaigns
    /\ Cleartexts(last.requestId)[1] > 0
    /\ balance >= Cleartexts(last.requestId)[1]

\* the names of the events of the next receipt
EventNames == {events'[i][1] : i \in 1..Len(events')}

\* C16: native funds leave the contract only inside a successful EndCampaign
\* callback; endCampaign transfers nothing, registers one pending request
\* over [total] with the caller as initiator and emits only
\* WithdrawalRequested(owner, total handle); every Withdrawn or CampaignEnded
\* event comes from a callback whose requestId an endCampaign call issued.
C16_FundsLeaveOnlyInCallback ==
    [][/\ (sent' # <<>> \/ balance' < balance)
              => (last'.op = "callbackEndCampaign" /\ last'.err = "")
       /\ (last'.op = "endCampaign" /\ last'.err = "")
              => /\ sent' = <<>>
                 /\ balance' = balance
                 /\ events' = << <<"WithdrawalRequested", last'.sender,
                                   totalDonations>> >>
                 /\ requestedHandles' =
                        Append(requestedHandles, <<totalDonations>>)
                 /\ pendingWithdrawals' =
                        [pendingWithdrawals EXCEPT
                             ![Len(requestedHandles) + 1] = last'.sender]
       /\ (EventNames \cap {"Withdrawn", "CampaignEnded"} # {})
              => /\ last'.op = "callbackEndCampaign"
                 /\ EndCampaignRequest(last'.requestId)
                 /\ pendingWithdrawals[last'.requestId] # ZeroAddress
      ]_vars

\* C16 witness: the callback of an endCampaign request paid out all the
\* contract held
C16_Witness ==
    /\ Succeeded("callbackEndCampaign")
    /\ EndCampaignRequest(last.requestId)
    /\ Len(sent) = 1 /\ sent[1][2] > 0
    /\ balance = 0
    /\ ~campaignActive

\* C17: decoded values reach only the handler of their kind of request: a
\* requestId issued by requestProgress never makes callbackEndCampaign
\* transfer funds or emit Withdrawn/CampaignEnded, and a requestId issued by
\* endCampaign never makes callbackProgress emit CampaignProgress, whatever
\* the proof and whoever delivers the callback.
C17_RequestKindRoutesCallback ==
    [][/\ (last'.op = "callbackEndCampaign" /\ ProgressRequest(last'.requestId))
              => /\ last'.err # ""
                 /\ sent' = <<>>
                 /\ balance' = balance
                 /\ events' = <<>>
       /\ (last'.op = "callbackProgress" /\ EndCampaignRequest(last'.requestId))
              => /\ last'.err # ""
                 /\ events' = <<>>
      ]_vars

\* C17 witness: callbackEndCampaign, given the verified cleartexts of a
\* Progress request whose total the balance covers, was refused
C17_Witness ==
    /\ last.op = "callbackEndCampaign"
    /\ last.proofOk
    /\ last.err # ""
    /\ ProgressRequest(last.requestId)
    /\ Cleartexts(last.requestId)[1] > 0
    /\ balance >= Cleartexts(last.requestId)[1]

\* C18: a successful startCampaign, from the Uninitialized or the Inactive
\* state, sets owner = caller, campaignActive = true, target = the submitted
\* encrypted target and total = encrypted zero, grants the contract and the
\* new owner decryption permission on the new total and target handles, and
\* emits CampaignStarted(owner, target).
C18_StartCampaignEffect ==
    [][(last'.op = "startCampaign" /\ last'.err = "") =>
           /\ ~campaignActive
           /\ charityOwner' = last'.sender
           /\ campaignActive'
           /\ \E t \in Targets : targetAmount' = External(t)
           /\ totalDonations' = TrivialZero
           /\ Decrypt(totalDonations') = 0
           /\ \A h \in {totalDonations', targetAmount'} :
                  \A who \in {This, last'.sender} : <<h, who>> \in acl'
           /\ events' = << <<"CampaignStarted", last'.sender, targetAmount'>> >>
      ]_vars

\* C18 witness: a principal other than the initiator of an earlier withdrawal
\* request started a campaign from the Inactive state, after a donation
C18_Witness ==
    /\ Succeeded("startCampaign")
    /\ campaigns = 2
    /\ \E r \in 1..Len(requestedHandles) :
           pendingWithdrawals[r] \in Principals \ {charityOwner}
    /\ \E p \in Principals : Decrypt(donorBalances[p]) > 0

\* C19: once a campaign has been started, the contract and the current owner
\* hold a grant on the current total and target handles, and the contract
\* and every donor who has donated hold a grant on that donor's current
\* balance handle; so no decryption request of endCampaign or
\* requestProgress is refused for a missing grant, and every handle of an
\* issued request has the contract's grant when the request is made.
C19_GrantsOnStoredHandles ==
    /\ campaigns > 0 =>
           /\ \A h \in {totalDonations, targetAmount} :
                  <<h, This>> \in acl /\ <<h, charityOwner>> \in acl
           /\ \A p \in Principals :
                  donorBalances[p] # NilHandle =>
                      /\ <<donorBalances[p], This>> \in acl
                      /\ <<donorBalances[p], p>> \in acl
    /\ last.err # "SenderNotAllowed"
    /\ (last.op \in {"endCampaign", "requestProgress"} /\ last.err = "") =>
           \A i \in 1..Len(requestedHandles[last.requestId]) :
               <<requestedHandles[last.requestId][i], This>> \in acl

\* C19 witness: endCampaign was granted its request in the second campaign,
\* whose owner is not the first campaign's, after a donation by a principal
\* who is not the owner
C19_Witness ==
    /\ Succeeded("endCampaign")
    /\ campaigns = 2
    /\ Len(totalDonations.v) = 1
    /\ \E p \in Principals \ {charityOwner} : donorBalances[p] = totalDonations
    /\ \E r \in 1..Len(requestedHandles) :
           pendingWithdrawals[r] \in Principals \ {charityOwner}

\* C20: a donor's balance is never deleted or changed by endCampaign or by
\* either callback, and it is reset when a new campaign is started: after a
\* later startCampaign the balance reflects only the donations the donor
\* made in the new campaign, none yet when the campaign starts.
C20_BalanceResetByNewCampaign ==
    [][/\ last'.op \in {"endCampaign", "callbackEndCampaign", "callbackProgress"}
              => donorBalances' = donorBalances
       /\ (last'.op = "startCampaign" /\ last'.err = "")
              => \A p \in Principals : Decrypt(donorBalances'[p]) = 0
      ]_vars

\* C21: requestProgress succeeds for every caller while the campaign is
\* active and fails when it is not; a successful call registers one
\* decryption request over the ordered handles [total, target] and changes
\* nothing else, and the call emits no event.
C21_RequestProgressFrame ==
    [][last'.op = "requestProgress" =>
           IF campaignActive
           THEN /\ last'.err = ""
                /\ last'.requestId = Len(requestedHandles) + 1
                /\ requestedHandles' =
                       Append(requestedHandles, <<totalDonations, targetAmount>>)
                /\ UNCHANGED <<campaignActive, charityOwner, totalDonations,
                               targetAmount, donorBalances, pendingWithdrawals,
                               acl, balance>>
                /\ events' = <<>>
                /\ sent' = <<>>
           ELSE /\ last'.err = "Campaign not active"
                /\ UNCHANGED storage
                /\ events' = <<>>
                /\ sent' = <<>>
      ]_vars

\* C21 witness: a principal who is not the owner requested the progress of a
\* campaign that has taken a donation
C21_Witness ==
    /\ Succeeded("requestProgress")
    /\ last.sender # charityOwner
    /\ Len(totalDonations.v) = 1
    /\ requestedHandles[last.requestId] = <<totalDonations, targetAmount>>

\* C22: while the campaign is inactive the total is immutable: every step
\* from an inactive state to an inactive state leaves the total, the target
\* and every donor balance unchanged, and from an inactive state only a
\* successful startCampaign changes the total.
C22_InactiveTotalImmutable ==
    [][~campaignActive =>
           /\ ~campaignActive' =>
                  UNCHANGED <<totalDonations, targetAmount, donorBalances>>
           /\ totalDonations' # totalDonations =>
                  (last'.op = "startCampaign" /\ last'.err = "")
           /\ last'.op \in {"donate", "updateTarget", "endCampaign",
                            "requestProgress"} => last'.err # ""
      ]_vars

\* C22 witness: a donation with a valid proof and a valid value was rejected
\* after the campaign had ended with a positive total
C22_Witness ==
    /\ last.op = "donate" /\ last.err # ""
    /\ last.proofOk /\ last.value = 2
    /\ ~campaignActive
    /\ Decrypt(totalDonations) > 0

\* C23: callbackProgress completes without an arithmetic failure for every
\* verified pair (total, target) of 128-bit values: the product total * 100
\* never overflows, so every answered Progress request produces a
\* CampaignProgress event.
C23_ProgressNeverOverflows ==
    [][(/\ last'.op = "callbackProgress"
        /\ last'.proofOk
        /\ ProgressRequest(last'.requestId))
       => /\ last'.err # "Panic(0x11)"
          /\ Len(events') = 1
          /\ events'[1][1] = "CampaignProgress"
      ]_vars

\* C24: when the oracle delivers a valid callback for every request and every
\* donation pays what it encrypts, every successful endCampaign is
\* eventually followed by the successful transfer of that request's
\* decrypted total to the owner who ended the campaign, whatever calls come
\* between the request and the callback (stated for the campaigns that took
\* donations: no donated funds stay locked).
C24_EndCampaignEventuallyPaid ==
    \A r \in 1..MaxRequests :
        (/\ last.op = "endCampaign" /\ last.err = "" /\ last.requestId = r
         /\ Cleartexts(r)[1] > 0)
            ~> (/\ last.op = "callbackEndCampaign" /\ last.err = ""
                /\ last.requestId = r
                /\ Len(sent) = 1 /\ sent[1][2] = Cleartexts(r)[1])

\* every lifecycle event emitted so far has been handled, no refreshState
\* call is running, none has failed since the latest lifecycle event, and
\* the contract has not changed since that event
SettledAfterEvent ==
    /\ hookHistory.lifecycle
    /\ \A i \in DOMAIN inbox : inbox[i].name \notin LifecycleEvents
    /\ refreshPc = "idle"
    /\ ~hookHistory.refreshFailed
    /\ hookHistory.atEvent = <<campaignActive, charityOwner>>

\* C25: once a lifecycle event (CampaignStarted, TargetUpdated, CampaignEnded
\* or the user's Donation) has been handled and every refreshState call has
\* finished, the hook's campaignActive and isOwner equal the contract's
\* campaignActive and owner as of that event, also when the event came
\* while a refreshState call was running.
C25_ViewFollowsEvents ==
    SettledAfterEvent =>
        /\ hookCampaignActive = hookHistory.atEvent[1]
        /\ isOwner = (hookHistory.atEvent[2] = User)

\* the positions of a donate call that has started and not ended
DonateInFlight == {"getAddress", "encrypt", "send", "wait", "refresh"}

\* C26 (first half): at most one donation is in flight at a time.
C26_OneDonationInFlight ==
    Cardinality({k \in DOMAIN donatePc : donatePc[k] \in DonateInFlight}) <= 1

\* C26: at most one donation is in flight at a time, and once every donate
\* call has finished, whether its transaction succeeded or one of its steps
\* (address lookup, encryption, sending, waiting for the receipt) failed,
\* isDonating is false again, so that a later donation is possible.
C26_DonateReleasesFlag ==
    /\ C26_OneDonationInFlight
    /\ (\A k \in DOMAIN donatePc : donatePc[k] \notin DonateInFlight)
           => ~isDonating /\ ~isDonatingRef

\* the step is the CampaignProgress listener handling the oldest event
HandleProgressStep ==
    /\ inbox # <<>>
    /\ Head(inbox).name = "CampaignProgress"
    /\ inbox' = Tail(inbox)

\* the step is an armed timeout firing
TimeoutFiresStep ==
    /\ timers' # timers
    /\ timers' \subseteq timers
    /\ inbox' = inbox
    /\ progressPc' = progressPc

\* C27: the 60-second progress timeout is a local give-up.  A
\* CampaignProgress event handled after a requestProgress transaction was
\* sent and before its timer fired cancels the timer, leaves
\* isRequestingProgress false and progressError null, and no timeout is
\* reported later for that request (no timer armed before the event stays
\* armed); a timer that fires leaves isRequestingProgress false and
\* progressError reporting the timeout; and an event handled after that
\* still sets the progress and clears the error.
C27_TimeoutIsLocalGiveUp ==
    [][/\ HandleProgressStep =>
              /\ timers' = {}
              /\ ~isRequestingProgress'
              /\ progressError' = "null"
              /\ progress' = Head(inbox).percentage
       /\ TimeoutFiresStep =>
              /\ ~isRequestingProgress'
              /\ progressError' = "Timeout: FHE decryption took too long"]_vars

====
